---- MODULE Spec2Model ----
(***************************************************************************)
(* Model of lazy_tensor_core/csrc/ops/ltc_ops.h: class OpKindWrapper, a    *)
(* handle that resolves torch::lazy::OpKind::Get(name_) on first use under *)
(* std::call_once and caches the result in op_kind_.                       *)
(*                                                                         *)
(* Threads call operator* / operator OpKind on handles; each call runs     *)
(* get(), i.e. std::call_once(once_, lambda) followed by a read of         *)
(* op_kind_.  The steps of one call are separate actions so that every     *)
(* interleaving of concurrent callers is explored.                         *)
(***************************************************************************)
EXTENDS Integers, FiniteSets, Sequences, TLC

\* ---------------------------------------------------------------- bounds
NumThreads == 3     \* threads that call resolve()
NumHandles == 2     \* OpKindWrapper instances
MaxCalls == 3       \* resolve() calls begun in one behaviour
MaxFail == 1        \* lookups that throw in one behaviour

Threads == 1..NumThreads
Handles == 1..NumHandles

\* ------------------------------------------------------ values and names
\* name_ of a handle whose constructor has not run yet (zero-initialised
\* static storage).
NullName == "nullptr"

\* The handles declared in ltc_ops.h, in declaration order; each is
\* constructed with its own operator name.
NameTable == <<"ltc_all_to_all", "ltc_as_strided_view_update", "ltc_cast",
              "ltc_collective_permute", "ltc_cross_replica_sum",
              "ltc_device_data">>
Names == {NameTable[i] : i \in 1..Len(NameTable)}
DeclaredName(k) == NameTable[k]

\* A default-constructed torch::lazy::OpKind (the value op_kind_ holds
\* before the lambda has assigned it).
DefaultKind == 0

\* torch::lazy::OpKind::Get: the registry interns the name and hands out a
\* kind per distinct name; equal names give equal kinds, distinct names give
\* distinct kinds, and no name gives the default-constructed kind.
OpKindGet(name) == CHOOSE i \in 1..Len(NameTable) : NameTable[i] = name

Kinds == {OpKindGet(n) : n \in Names}
AllKinds == Kinds \cup {DefaultKind}

\* The failure of the registry lookup (the exception OpKind::Get throws).
Errors == {"lookup_failed"}

\* The two public accessors, operator*() and operator torch::lazy::OpKind().
Accessors == {"deref", "convert"}

\* The accessor thread t calls through: odd threads dereference the handle,
\* even threads convert it.
AccessorOf(t) == IF t % 2 = 1 THEN "deref" ELSE "convert"

\* States of std::once_flag.
OnceStates == {"not_run", "running", "completed"}

VARIABLES
  name_,       \* [Handles -> Names \cup {NullName}]   OpKindWrapper::name_
  op_kind_,    \* [Handles -> AllKinds]                OpKindWrapper::op_kind_
  once_,       \* [Handles -> OnceStates]              OpKindWrapper::once_
  writing,     \* [Handles -> BOOLEAN] the assignment to op_kind_ is under way
  pc,          \* [Threads -> position of the thread inside get()]
  cur,         \* [Threads -> Handles] handle of the thread's current/last call
  tmp,         \* [Threads -> SUBSET Kinds] value OpKind::Get returned to the lambda
  result,      \* [Threads -> SUBSET AllKinds] value the call returned ({} = none)
  exc,         \* [Threads -> SUBSET Errors] exception the call ended with
  raised,      \* [Threads -> SUBSET Errors] history: what OpKind::Get threw in this call
  lookups,     \* [Handles -> Nat] history: invocations of OpKind::Get
  lookupArgs,  \* [Handles -> SUBSET Names] history: arguments passed to OpKind::Get
  failed,      \* [Handles -> Nat] history: invocations of OpKind::Get that threw
  writes,      \* [Handles -> Nat] history: completed assignments to op_kind_
  began,       \* [Handles -> BOOLEAN] history: some resolve() call has begun
  closed,      \* [Handles -> BOOLEAN] history: some resolve() call has ended
  raced,       \* [Handles -> BOOLEAN] history: two first callers overlapped
  returned,    \* [Handles -> SUBSET AllKinds] history: values resolve() returned
  calls        \* Nat, history: resolve() calls begun

vars == <<name_, op_kind_, once_, writing, pc, cur, tmp, result, exc, raised,
          lookups, lookupArgs, failed, writes, began, closed, raced,
          returned, calls>>

handleVars == <<name_, op_kind_, once_, writing>>
histVars == <<lookups, lookupArgs, failed, writes, began, closed, raced,
              returned, calls>>

PcStates == {"idle", "enter", "wait", "lookup", "storing", "finish",
             "unwind", "ret", "done", "threw"}

\* Positions inside get().
InGet(t) == pc[t] \in {"enter", "wait", "lookup", "storing", "finish",
                       "unwind", "ret"}

\* Positions of the active execution of call_once (inside the lambda, or
\* leaving it).
Active(t) == pc[t] \in {"lookup", "storing", "finish", "unwind"}

TypeOK ==
  /\ name_ \in [Handles -> Names \cup {NullName}]
  /\ op_kind_ \in [Handles -> AllKinds]
  /\ once_ \in [Handles -> OnceStates]
  /\ writing \in [Handles -> BOOLEAN]
  /\ pc \in [Threads -> PcStates]
  /\ cur \in [Threads -> Handles]
  /\ tmp \in [Threads -> SUBSET Kinds]
  /\ result \in [Threads -> SUBSET AllKinds]
  /\ exc \in [Threads -> SUBSET Errors]
  /\ raised \in [Threads -> SUBSET Errors]
  /\ lookups \in [Handles -> Nat]
  /\ lookupArgs \in [Handles -> SUBSET Names]
  /\ failed \in [Handles -> Nat]
  /\ writes \in [Handles -> Nat]
  /\ began \in [Handles -> BOOLEAN]
  /\ closed \in [Handles -> BOOLEAN]
  /\ raced \in [Handles -> BOOLEAN]
  /\ returned \in [Handles -> SUBSET AllKinds]
  /\ calls \in 0..MaxCalls

RECURSIVE SumOver(_, _)
SumOver(f, S) ==
  IF S = {} THEN 0
  ELSE LET x == CHOOSE y \in S : TRUE IN f[x] + SumOver(f, S \ {x})

TotalFailed == SumOver(failed, Handles)

\* Program start: static storage of every handle is zero-initialised, no
\* constructor has run, no thread is inside get().
Init ==
  /\ name_ = [k \in Handles |-> NullName]
  /\ op_kind_ = [k \in Handles |-> DefaultKind]
  /\ once_ = [k \in Handles |-> "not_run"]
  /\ writing = [k \in Handles |-> FALSE]
  /\ pc = [t \in Threads |-> "idle"]
  /\ cur = [t \in Threads |-> 1]
  /\ tmp = [t \in Threads |-> {}]
  /\ result = [t \in Threads |-> {}]
  /\ exc = [t \in Threads |-> {}]
  /\ raised = [t \in Threads |-> {}]
  /\ lookups = [k \in Handles |-> 0]
  /\ lookupArgs = [k \in Handles |-> {}]
  /\ failed = [k \in Handles |-> 0]
  /\ writes = [k \in Handles |-> 0]
  /\ began = [k \in Handles |-> FALSE]
  /\ closed = [k \in Handles |-> FALSE]
  /\ raced = [k \in Handles |-> FALSE]
  /\ returned = [k \in Handles |-> {}]
  /\ calls = 0

\* ------------------------------------------------- std::call_once rules

\* The flag says a previous execution returned: the call is passive.
IsDone_Early(k) == once_[k] # "not_run"
IsDone(k) == once_[k] = "completed"

\* Another execution is active: the caller waits for it.
MustWait(k) == once_[k] = "running"

\* No execution returned and none is active: this call becomes the active
\* execution.
MayExecute_Racy(k) == once_[k] # "completed"
MayExecute(k) == once_[k] = "not_run"

\* The flag after the active execution returned normally.
FlagAfterReturn_NotSet == "not_run"
FlagAfterReturn_Stuck == "running"
FlagAfterReturn == "completed"

\* The flag after the active execution threw (an exceptional call): the flag
\* is not set, another call may become the active execution.
FlagAfterException_Stuck == "running"
FlagAfterException_Completed == "completed"
FlagAfterException == "not_run"

\* ------------------------------------------------- OpKindWrapper members

\* [this]() { op_kind_ = OpKind::Get(name_); } : the name the lambda passes.
LambdaArg_First(k) == NameTable[1]
LambdaArg(k) == name_[k]

\* op_kind_ is a non-static member: the lambda of handle k assigns the
\* op_kind_ of handle k and of no other handle.
StoreTargets_Static(k) == Handles
StoreTargets(k) == {k}

\* A read of op_kind_: the stored value, or, when it races with the
\* assignment, whatever the build produces.
ReadOpKind(k) == IF writing[k] THEN AllKinds ELSE {op_kind_[k]}

\* --------------------------------------------------------------- actions

\* OpKindWrapper(const char* name) : name_(name) {}
\* with a lookup added to the constructor.
OpKindWrapper_Eager(k, name) ==
  /\ name_[k] = NullName
  /\ \A j \in Handles : j < k => name_[j] # NullName
  /\ name_' = [name_ EXCEPT ![k] = name]
  /\ op_kind_' = [op_kind_ EXCEPT ![k] = OpKindGet(name)]
  /\ once_' = [once_ EXCEPT ![k] = "completed"]
  /\ lookups' = [lookups EXCEPT ![k] = @ + 1]
  /\ lookupArgs' = [lookupArgs EXCEPT ![k] = @ \cup {name}]
  /\ writes' = [writes EXCEPT ![k] = @ + 1]
  /\ UNCHANGED <<writing, pc, cur, tmp, result, exc, raised, failed, began,
                 closed, raced, returned, calls>>

\* OpKindWrapper(const char* name) : name_(name) {}
\* Stores the name; op_kind_ is default-constructed and once_ starts
\* not-yet-run.  No lookup.  The handles are constructed in declaration
\* order.
OpKindWrapper(k, name) ==
  /\ name_[k] = NullName
  /\ \A j \in Handles : j < k => name_[j] # NullName
  /\ name_' = [name_ EXCEPT ![k] = name]
  /\ op_kind_' = [op_kind_ EXCEPT ![k] = DefaultKind]
  /\ once_' = [once_ EXCEPT ![k] = "not_run"]
  /\ UNCHANGED <<writing, pc, cur, tmp, result, exc, raised, histVars>>

\* The conversion operator written as { return OpKind::Get(name_); }: it
\* looks the name up itself and uses neither once_ nor op_kind_.
Resolve_ConvertDirect(t, k, a) ==
  /\ pc[t] \in {"idle", "done", "threw"}
  /\ name_[k] # NullName
  /\ calls < MaxCalls
  /\ cur' = [cur EXCEPT ![t] = k]
  /\ tmp' = [tmp EXCEPT ![t] = {}]
  /\ exc' = [exc EXCEPT ![t] = {}]
  /\ raised' = [raised EXCEPT ![t] = {}]
  /\ began' = [began EXCEPT ![k] = TRUE]
  /\ calls' = calls + 1
  /\ IF a = "convert"
       THEN /\ pc' = [pc EXCEPT ![t] = "done"]
            /\ result' = [result EXCEPT ![t] = {OpKindGet(name_[k])}]
            /\ lookups' = [lookups EXCEPT ![k] = @ + 1]
            /\ lookupArgs' = [lookupArgs EXCEPT ![k] = @ \cup {name_[k]}]
            /\ returned' = [returned EXCEPT ![k] =
                              @ \cup {OpKindGet(name_[k])}]
            /\ closed' = [closed EXCEPT ![k] = TRUE]
            /\ UNCHANGED raced
       ELSE /\ pc' = [pc EXCEPT ![t] = "enter"]
            /\ result' = [result EXCEPT ![t] = {}]
            /\ raced' = [raced EXCEPT ![k] =
                           @ \/ (~closed[k] /\ \E u \in Threads \ {t} :
                                                  cur[u] = k /\ InGet(u))]
            /\ UNCHANGED <<lookups, lookupArgs, returned, closed>>
  /\ UNCHANGED <<handleVars, failed, writes>>

\* operator*() / operator torch::lazy::OpKind(): both are { return get(); },
\* a thread enters get() on a constructed handle through either.  Callers race when one enters while another is inside
\* get() on the same handle and no call on that handle has ended yet.
Resolve(t, k, a) ==
  /\ pc[t] \in {"idle", "done", "threw"}
  /\ name_[k] # NullName
  /\ calls < MaxCalls
  /\ pc' = [pc EXCEPT ![t] = "enter"]
  /\ cur' = [cur EXCEPT ![t] = k]
  /\ tmp' = [tmp EXCEPT ![t] = {}]
  /\ result' = [result EXCEPT ![t] = {}]
  /\ exc' = [exc EXCEPT ![t] = {}]
  /\ raised' = [raised EXCEPT ![t] = {}]
  /\ began' = [began EXCEPT ![k] = TRUE]
  /\ raced' = [raced EXCEPT ![k] =
                 @ \/ (~closed[k] /\ \E u \in Threads \ {t} :
                                        cur[u] = k /\ InGet(u))]
  /\ calls' = calls + 1
  /\ UNCHANGED <<handleVars, lookups, lookupArgs, failed, writes, closed,
                 returned>>

\* std::call_once, flag already set: a passive call, returns at once.
CallOncePassive(t) ==
  /\ pc[t] \in {"enter", "wait"}
  /\ IsDone(cur[t])
  /\ pc' = [pc EXCEPT ![t] = "ret"]
  /\ UNCHANGED <<handleVars, cur, tmp, result, exc, raised, histVars>>

\* std::call_once, another execution is active: the caller blocks.
CallOnceBlock(t) ==
  /\ pc[t] = "enter"
  /\ MustWait(cur[t])
  /\ pc' = [pc EXCEPT ![t] = "wait"]
  /\ UNCHANGED <<handleVars, cur, tmp, result, exc, raised, histVars>>

\* std::call_once, flag not set and no execution active: this call becomes
\* the active execution and runs the lambda, which calls
\* torch::lazy::OpKind::Get(name_).
CallOnceActive(t) ==
  LET k == cur[t] IN
  /\ pc[t] \in {"enter", "wait"}
  /\ MayExecute(k)
  /\ once_' = [once_ EXCEPT ![k] = "running"]
  /\ pc' = [pc EXCEPT ![t] = "lookup"]
  /\ lookups' = [lookups EXCEPT ![k] = @ + 1]
  /\ lookupArgs' = [lookupArgs EXCEPT ![k] = @ \cup {LambdaArg(k)}]
  /\ UNCHANGED <<name_, op_kind_, writing, cur, tmp, result, exc, raised,
                 failed, writes, began, closed, raced, returned, calls>>

\* OpKind::Get returns; the lambda starts the assignment op_kind_ = ... .
LookupOk(t) ==
  LET k == cur[t] IN
  /\ pc[t] = "lookup"
  /\ tmp' = [tmp EXCEPT ![t] = {OpKindGet(LambdaArg(k))}]
  /\ writing' = [j \in Handles |-> writing[j] \/ j \in StoreTargets(k)]
  /\ pc' = [pc EXCEPT ![t] = "storing"]
  /\ UNCHANGED <<name_, op_kind_, once_, cur, result, exc, raised, histVars>>

\* OpKind::Get throws: the exception leaves the lambda, nothing is assigned.
LookupThrow(t, e) ==
  LET k == cur[t] IN
  /\ pc[t] = "lookup"
  /\ TotalFailed < MaxFail
  /\ raised' = [raised EXCEPT ![t] = {e}]
  /\ exc' = [exc EXCEPT ![t] = {e}]
  /\ failed' = [failed EXCEPT ![k] = @ + 1]
  /\ pc' = [pc EXCEPT ![t] = "unwind"]
  /\ UNCHANGED <<handleVars, cur, tmp, result, lookups, lookupArgs, writes,
                 began, closed, raced, returned, calls>>

\* The assignment to op_kind_ completes and the lambda returns.
StoreEnd(t) ==
  LET k == cur[t] IN
  /\ pc[t] = "storing"
  /\ \E v \in tmp[t] :
       op_kind_' = [j \in Handles |->
                      IF j \in StoreTargets(k) THEN v ELSE op_kind_[j]]
  /\ writing' = [j \in Handles |-> writing[j] /\ j \notin StoreTargets(k)]
  /\ writes' = [j \in Handles |->
                  IF j \in StoreTargets(k) THEN writes[j] + 1 ELSE writes[j]]
  /\ pc' = [pc EXCEPT ![t] = "finish"]
  /\ UNCHANGED <<name_, once_, cur, tmp, result, exc, raised, lookups,
                 lookupArgs, failed, began, closed, raced, returned, calls>>

\* std::call_once, the active execution returned normally: the flag is set
\* and call_once returns.
CallOnceReturning(t) ==
  LET k == cur[t] IN
  /\ pc[t] = "finish"
  /\ once_' = [once_ EXCEPT ![k] = FlagAfterReturn]
  /\ pc' = [pc EXCEPT ![t] = "ret"]
  /\ UNCHANGED <<name_, op_kind_, writing, cur, tmp, result, exc, raised,
                 histVars>>

\* get() with call_once in a loop that catches the exception and tries
\* again.
CallOnceExceptional_Retry(t) ==
  LET k == cur[t] IN
  /\ pc[t] = "unwind"
  /\ once_' = [once_ EXCEPT ![k] = FlagAfterException]
  /\ exc' = [exc EXCEPT ![t] = {}]
  /\ pc' = [pc EXCEPT ![t] = "enter"]
  /\ UNCHANGED <<name_, op_kind_, writing, cur, tmp, result, raised,
                 histVars>>

\* get() with the exception of the lambda caught and dropped.
CallOnceExceptional_Swallow(t) ==
  LET k == cur[t] IN
  /\ pc[t] = "unwind"
  /\ once_' = [once_ EXCEPT ![k] = FlagAfterException]
  /\ exc' = [exc EXCEPT ![t] = {}]
  /\ pc' = [pc EXCEPT ![t] = "ret"]
  /\ UNCHANGED <<name_, op_kind_, writing, cur, tmp, result, raised,
                 histVars>>

\* std::call_once, the active execution threw: an exceptional call.  The
\* flag is not set and the exception propagates to the caller of call_once,
\* and so out of get(), which has no handler.
CallOnceExceptional(t) ==
  LET k == cur[t] IN
  /\ pc[t] = "unwind"
  /\ once_' = [once_ EXCEPT ![k] = FlagAfterException]
  /\ closed' = [closed EXCEPT ![k] = TRUE]
  /\ pc' = [pc EXCEPT ![t] = "threw"]
  /\ UNCHANGED <<name_, op_kind_, writing, cur, tmp, result, exc, raised,
                 lookups, lookupArgs, failed, writes, began, raced,
                 returned, calls>>

\* return op_kind_;
Return(t) ==
  LET k == cur[t] IN
  /\ pc[t] = "ret"
  /\ \E v \in ReadOpKind(k) :
       /\ result' = [result EXCEPT ![t] = {v}]
       /\ returned' = [returned EXCEPT ![k] = @ \cup {v}]
  /\ closed' = [closed EXCEPT ![k] = TRUE]
  /\ pc' = [pc EXCEPT ![t] = "done"]
  /\ UNCHANGED <<handleVars, cur, tmp, exc, raised, lookups, lookupArgs,
                 failed, writes, began, raced, calls>>

\* One step of thread t inside get().
ThreadStep(t) ==
  \/ CallOncePassive(t)
  \/ CallOnceBlock(t)
  \/ CallOnceActive(t)
  \/ LookupOk(t)
  \/ \E e \in Errors : LookupThrow(t, e)
  \/ StoreEnd(t)
  \/ CallOnceReturning(t)
  \/ CallOnceExceptional(t)
  \/ Return(t)

Next ==
  \/ \E k \in Handles : OpKindWrapper(k, DeclaredName(k))
  \/ \E t \in Threads, k \in Handles : Resolve(t, k, AccessorOf(t))
  \/ \E t \in Threads : CallOncePassive(t)
  \/ \E t \in Threads : CallOnceBlock(t)
  \/ \E t \in Threads : CallOnceActive(t)
  \/ \E t \in Threads : LookupOk(t)
  \/ \E t \in Threads, e \in Errors : LookupThrow(t, e)
  \/ \E t \in Threads : StoreEnd(t)
  \/ \E t \in Threads : CallOnceReturning(t)
  \/ \E t \in Threads : CallOnceExceptional(t)
  \/ \E t \in Threads : Return(t)

Spec == Init /\ [][Next]_vars

\* Scheduling: a thread that can take a step inside get() eventually takes
\* it (the operating system runs every runnable thread, and call_once wakes
\* its waiters when the flag changes).
Fairness == \A t \in Threads : WF_vars(ThreadStep(t))

FairSpec == Spec /\ Fairness

\* ---------------------------------------------------------------- claims

\* The value the registry holds for the name of handle k.
Resolved(k) == OpKindGet(DeclaredName(k))

\* Threads whose current or last call is on handle k.
Callers(k) == {t \in Threads : cur[t] = k /\ pc[t] # "idle"}

\* First callers raced on handle k and every call on k has ended.
RaceOver(k) ==
  /\ raced[k]
  /\ Cardinality(Callers(k)) >= 2
  /\ \A t \in Callers(k) : pc[t] \in {"done", "threw"}

\* C1 as stated: when two or more threads race on a fresh handle, exactly one
\* lookup executes and every racing call returns the same resolved value.
C1_ExactlyOneLookup ==
  \A k \in Handles :
    RaceOver(k) =>
      /\ lookups[k] = 1
      /\ \A t \in Callers(k) : pc[t] = "done" /\ result[t] = {Resolved(k)}

\* C1 amended: when two or more threads race on a fresh handle, at most one
\* lookup succeeds and a lookup is repeated only after one that failed; every
\* call that returns a value returns the result of the one successful
\* lookup; a call ends without a value only with the failure of its own
\* lookup; when no lookup fails, exactly one lookup executes and all callers
\* return that value.
C1_OneSuccessfulLookup ==
  \A k \in Handles :
    RaceOver(k) =>
      /\ lookups[k] <= failed[k] + 1
      /\ returned[k] \subseteq {Resolved(k)}
      /\ returned[k] # {} => lookups[k] = failed[k] + 1
      /\ \A t \in Callers(k) :
           /\ pc[t] = "done" => result[t] = {Resolved(k)}
           /\ pc[t] = "threw" => raised[t] # {} /\ result[t] = {}
      /\ failed[k] = 0 =>
           /\ lookups[k] = 1
           /\ \A t \in Callers(k) : pc[t] = "done"

\* Every thread raced on one handle, one lookup failed, another thread took
\* over and the callers that returned hold the value.
C1_Witness ==
  \E k \in Handles :
    /\ RaceOver(k)
    /\ Callers(k) = Threads
    /\ failed[k] >= 1
    /\ \E t \in Threads : pc[t] = "done"

\* C2 as stated: over any sequence of resolve() calls on a handle the lookup
\* is invoked at most once and all returned values are equal.
C2_AtMostOneLookup ==
  \A k \in Handles :
    /\ lookups[k] <= 1
    /\ Cardinality(returned[k]) <= 1

\* C2 amended: over any sequence of resolve() calls on a handle the lookup
\* succeeds at most once; it is invoked again only after an invocation that
\* failed and never after one that succeeded; all returned values are equal.
C2_AtMostOneSuccess ==
  \A k \in Handles :
    /\ lookups[k] <= failed[k] + 1
    /\ once_[k] = "completed" => lookups[k] = failed[k] + 1
    /\ failed[k] = 0 => lookups[k] <= 1
    /\ Cardinality(returned[k]) <= 1

\* A handle whose lookup failed once, was looked up again and has returned a
\* value to two calls.
C2_Witness ==
  \E k \in Handles :
    /\ failed[k] >= 1
    /\ lookups[k] = failed[k] + 1
    /\ returned[k] # {}
    /\ \E t, u \in Callers(k) : t # u /\ pc[t] = "done" /\ pc[u] = "done"

\* C3: construction performs no lookup; until a resolve() call has begun on
\* a handle its lookup count is 0, nothing has been passed to the registry,
\* op_kind_ is unwritten and once_ is not-yet-run.
C3_LazyLookup ==
  \A k \in Handles :
    ~began[k] =>
      /\ lookups[k] = 0
      /\ lookupArgs[k] = {}
      /\ writes[k] = 0
      /\ once_[k] = "not_run"
      /\ op_kind_[k] = DefaultKind

\* A constructed handle nobody has resolved yet, next to one that has been
\* looked up.
C3_Witness ==
  \E k, j \in Handles :
    /\ name_[k] # NullName
    /\ ~began[k]
    /\ lookups[k] = 0
    /\ began[j]
    /\ lookups[j] >= 1

\* C4: a call that call_once has let through, and a call that has returned,
\* sees once_ completed and the completely written op_kind_, and a returned
\* value is that op_kind_, the result of the lookup.
C4_NoPartialValue ==
  \A t \in Threads :
    LET k == cur[t] IN
    /\ pc[t] \in {"ret", "done"} =>
         /\ once_[k] = "completed"
         /\ ~writing[k]
         /\ writes[k] >= 1
         /\ op_kind_[k] = Resolved(k)
    /\ pc[t] = "done" => result[t] = {op_kind_[k]}

\* Two racing callers of one handle have both returned after a single
\* lookup: one of them only observed the completed flag.
C4_Witness ==
  \E k \in Handles :
    /\ raced[k]
    /\ lookups[k] = 1
    /\ \E t, u \in Callers(k) : t # u /\ pc[t] = "done" /\ pc[u] = "done"

\* C5: a failure of the lookup ends the call of the thread that executed it
\* with that same failure and without a value; no other call ends with a
\* failure.
C5_FailurePropagates ==
  \A t \in Threads :
    /\ raised[t] # {} => pc[t] \in {"unwind", "threw"} /\ exc[t] = raised[t]
    /\ raised[t] = {} => pc[t] # "threw" /\ exc[t] = {}
    /\ pc[t] = "threw" => result[t] = {}

\* One racing caller ended with the failure of its lookup while another
\* caller of the same handle returned a value.
C5_Witness ==
  \E k \in Handles :
    /\ raced[k]
    /\ \E t, u \in Callers(k) :
         /\ pc[t] = "threw" /\ exc[t] # {}
         /\ pc[u] = "done" /\ exc[u] = {}

\* C6: name_ is the name given to the constructor and never changes; every
\* lookup of a handle passes that name; every value resolve() returns is the
\* registry's result for that name.
C6_NameAndValue ==
  \A k \in Handles :
    /\ name_[k] \in {NullName, DeclaredName(k)}
    /\ began[k] => name_[k] = DeclaredName(k)
    /\ lookupArgs[k] \subseteq {DeclaredName(k)}
    /\ returned[k] \subseteq {OpKindGet(DeclaredName(k))}

\* A handle other than the first declared one has been looked up and has
\* returned a value.
C6_Witness ==
  \E k \in Handles :
    /\ DeclaredName(k) # NameTable[1]
    /\ lookups[k] >= 1
    /\ returned[k] # {}

\* C7: two handles with different names never return equal values, in any
\* order or interleaving of their resolutions.
C7_DistinctKinds ==
  /\ \A j, k \in Handles :
       name_[j] # name_[k] => returned[j] \cap returned[k] = {}
  /\ \A t, u \in Threads :
       (/\ pc[t] = "done"
        /\ pc[u] = "done"
        /\ name_[cur[t]] # name_[cur[u]]) => result[t] # result[u]

\* Two handles were resolved while both lookups were under way at the same
\* time, and a later call on the first one returned too.
C7_Witness ==
  \E t, u, w \in Threads :
    /\ t # u /\ u # w /\ t # w
    /\ cur[t] # cur[u]
    /\ cur[w] = cur[t]
    /\ pc[t] = "done" /\ pc[u] = "done" /\ pc[w] = "done"

\* C8: op_kind_ of a handle is assigned at most once; no assignment starts
\* after one has completed, and no two are under way together.
C8_WrittenOnce ==
  \A k \in Handles :
    /\ writes[k] <= 1
    /\ writing[k] => writes[k] = 0
    /\ Cardinality({t \in Threads : cur[t] = k /\ pc[t] = "storing"}) <= 1

\* Every thread has called one handle, first callers raced on it, its
\* op_kind_ has been written once and every call has returned.
C8_Witness ==
  \E k \in Handles :
    /\ raced[k]
    /\ writes[k] = 1
    /\ Callers(k) = Threads
    /\ \A t \in Threads : pc[t] = "done"

\* C9: at most one thread at a time is the active execution of a handle's
\* call_once (inside the lookup, or between the lookup and the end of
\* call_once), and once_ is running exactly while there is one.
C9_OneLookupAtATime ==
  \A k \in Handles :
    LET active == {t \in Threads : cur[t] = k /\ Active(t)} IN
    /\ Cardinality(active) <= 1
    /\ once_[k] = "running" <=> active # {}

\* After a failed lookup one thread is inside the next lookup of the handle
\* while another waits for it.
C9_Witness ==
  \E k \in Handles :
    /\ failed[k] >= 1
    /\ \E t, u \in Threads :
         /\ cur[t] = k /\ pc[t] = "lookup"
         /\ cur[u] = k /\ pc[u] = "wait"

\* A thread inside get() that cannot take a step.
Blocked(t) == InGet(t) /\ ~ENABLED ThreadStep(t)

\* A blocked thread waits for another thread's active execution on the same
\* handle.
BlockedOnlyOnActive ==
  \A t \in Threads :
    Blocked(t) =>
      \E u \in Threads \ {t} : cur[u] = cur[t] /\ Active(u)

\* What call_once does with an arriving caller: not-yet-run, it runs the
\* lookup; completed, it returns without a lookup; running, it waits.
ArrivalRule ==
  \A t \in Threads :
    (pc[t] = "enter" /\ pc'[t] # "enter") =>
      LET k == cur[t] IN
      /\ once_[k] = "not_run" =>
           pc'[t] = "lookup" /\ lookups'[k] = lookups[k] + 1
      /\ once_[k] = "completed" =>
           pc'[t] = "ret" /\ lookups' = lookups /\ once_' = once_
      /\ once_[k] = "running" => pc'[t] = "wait" /\ lookups' = lookups

\* C10: a thread inside get() is blocked only while another thread's
\* execution for the same handle is in flight; a caller that arrives at a
\* not-yet-run flag runs the lookup itself, one that arrives at a completed
\* flag goes on to return without blocking and without a lookup.
C10_BlocksOnlyOnInFlight == []BlockedOnlyOnActive /\ [][ArrivalRule]_vars

\* A thread is blocked behind the lookup of one handle while a call on
\* another, completed handle is about to return.
C10_Witness ==
  \E t, u \in Threads :
    /\ Blocked(t)
    /\ cur[u] # cur[t]
    /\ pc[u] = "ret"
    /\ writes[cur[u]] = 1
    /\ lookups[cur[u]] = 1

\* No thread inside get() is stuck for good: while some call is in get(),
\* some thread can take a step.
NoDeadlock ==
  (\E t \in Threads : InGet(t)) => \E u \in Threads : ENABLED ThreadStep(u)

\* Every call ends: with a value, or with the failure of its own lookup.
EveryCallEnds ==
  \A t \in Threads :
    InGet(t) ~> (pc[t] = "done" \/ (pc[t] = "threw" /\ raised[t] # {}))

\* C11: under fair scheduling every resolve() call ends, and it ends with a
\* value unless its own lookup failed; a caller blocked on an in-flight
\* resolution is released when it completes and returns; no deadlock state
\* is reachable.
C11_EveryCallerReturns == []NoDeadlock /\ EveryCallEnds

\* A caller that blocked behind the first, successful resolution has been
\* released by its completion and has not left call_once yet.
C11_Witness ==
  \E t \in Threads :
    /\ pc[t] = "wait"
    /\ once_[cur[t]] = "completed"
    /\ failed[cur[t]] = 0

\* Calls on handle k that have returned a value.
Returned(k) == {t \in Threads : cur[t] = k /\ pc[t] = "done"}

C12_NeverLooksUpAgain ==
  \A k \in Handles : failed[k] >= 1 => lookups[k] = 1

\* A step of a call whose lookup has failed: it invokes no lookup, the call
\* ends with the exception, and only a new resolve() call follows.
FailedCallStep ==
  \A t \in Threads :
    (raised[t] # {} /\ pc'[t] # pc[t]) =>
      /\ lookups' = lookups
      /\ pc[t] = "unwind" => pc'[t] = "threw"
      /\ pc[t] = "threw" => pc'[t] = "enter" /\ raised'[t] = {}

\* A step of a call that has invoked its lookup: it invokes no second one.
OneLookupPerCall ==
  \A t \in Threads :
    (pc[t] \in {"lookup", "storing", "finish", "unwind", "ret"}
       /\ pc'[t] # pc[t]) =>
      lookups' = lookups /\ pc'[t] # "lookup"

\* C12 amended: the handle performs no retries within a resolve() call: a
\* call invokes the lookup at most once, and a call whose lookup failed ends
\* with the failure without invoking it again.  (The failure does not poison
\* the handle: a waiting or later call invokes the lookup again.)
C12_NoRetryWithinCall == [][FailedCallStep /\ OneLookupPerCall]_vars

\* A call has ended with the failure of its lookup and another call on the
\* same handle is inside the second lookup.
C12_Witness ==
  \E k \in Handles :
    /\ failed[k] = 1
    /\ lookups[k] = 2
    /\ \E t, u \in Threads :
         /\ cur[t] = k /\ pc[t] = "threw" /\ raised[t] # {}
         /\ cur[u] = k /\ pc[u] = "lookup"

\* The members and the history of handle k.
HandleState(k) ==
  <<name_[k], op_kind_[k], once_[k], writing[k], lookups[k], lookupArgs[k],
    failed[k], writes[k], returned[k]>>

\* A step of a call on handle A (begun, in flight, ending with a value or
\* with a failure) leaves every other handle as it was.
OtherHandlesUnchanged ==
  \A t \in Threads :
    pc'[t] # pc[t] =>
      \A b \in Handles \ {cur'[t]} : HandleState(b)' = HandleState(b)

\* Whether a call can proceed depends on its own handle only: a call on B
\* whose once_ is not running can take a step whatever the other handles
\* are doing.
NotBlockedByOtherHandle ==
  \A t \in Threads :
    (InGet(t) /\ once_[cur[t]] # "running") => ENABLED ThreadStep(t)

\* C13: a resolve() call on one handle never changes the once_ state, the
\* cached value or the lookup count (or any other member or history) of
\* another handle, and never blocks a call on another handle.
C13_HandlesIndependent ==
  []NotBlockedByOtherHandle /\ [][OtherHandlesUnchanged]_vars

\* A call on one handle is leaving a failed lookup while a call on another
\* handle is in the middle of writing its op_kind_.
C13_Witness ==
  \E t, u \in Threads :
    /\ cur[t] # cur[u]
    /\ pc[t] = "unwind"
    /\ pc[u] = "storing"

\* Every lookup of handle k so far has failed and its failure has left
\* call_once.
OnlyFailedSoFar(k) ==
  /\ failed[k] >= 1
  /\ lookups[k] = failed[k]
  /\ ~\E t \in Threads : cur[t] = k /\ pc[t] = "unwind"

\* C15: a failed lookup leaves the handle as it was before the attempt:
\* while the exception leaves call_once, op_kind_ is still the unwritten
\* default and once_ is running; afterwards once_ is not-yet-run again, not
\* completed; and once_ is completed only after a successful lookup has
\* been written.
C15_FailureLeavesHandleFresh ==
  /\ \A t \in Threads :
       pc[t] = "unwind" =>
         /\ once_[cur[t]] = "running"
         /\ op_kind_[cur[t]] = DefaultKind
         /\ ~writing[cur[t]]
         /\ writes[cur[t]] = 0
  /\ \A k \in Handles :
       /\ OnlyFailedSoFar(k) =>
            /\ once_[k] = "not_run"
            /\ op_kind_[k] = DefaultKind
            /\ ~writing[k]
            /\ writes[k] = 0
            /\ returned[k] = {}
       /\ once_[k] = "completed" =>
            lookups[k] = failed[k] + 1 /\ writes[k] = 1

\* The only lookup of a handle has failed, the exception has reached the
\* caller, and the handle is back to not-yet-run with nobody inside get().
C15_Witness ==
  \E k \in Handles :
    /\ OnlyFailedSoFar(k)
    /\ once_[k] = "not_run"
    /\ \E t \in Threads : cur[t] = k /\ pc[t] = "threw"
    /\ \A t \in Threads : ~InGet(t)

\* Threads blocked in call_once on handle k.
Waiting(k) == {u \in Threads : cur[u] = k /\ pc[u] = "wait"}

\* C16 as stated: when a lookup has failed and threads are blocked on the
\* handle, the thread that executes the next lookup is one of the blocked
\* threads.
C16_BlockedThreadTakesOver ==
  [][\A t \in Threads :
       (/\ pc'[t] = "lookup"
        /\ pc[t] # "lookup"
        /\ failed[cur[t]] >= 1
        /\ Waiting(cur[t]) \ {t} # {}) => pc[t] = "wait"]_vars

\* After a failure every blocked thread may become the next execution, at
\* most one thread is one, and nothing is returned before a lookup has
\* succeeded and been written.
AfterFailure ==
  \A k \in Handles :
    failed[k] >= 1 =>
      /\ \A u \in Waiting(k) :
           once_[k] = "not_run" => ENABLED CallOnceActive(u)
      /\ Cardinality({t \in Threads : cur[t] = k /\ Active(t)}) <= 1
      /\ \A u \in Threads :
           (cur[u] = k /\ pc[u] \in {"ret", "done"}) =>
             writes[k] = 1 /\ op_kind_[k] = Resolved(k)

\* A blocked thread leaves its wait only to execute the lookup itself at a
\* not-yet-run flag, or to return at a completed flag; while another thread
\* starts the next attempt, the blocked threads stay blocked.
WaiterStep ==
  \A u \in Threads :
    pc[u] = "wait" =>
      /\ pc'[u] # "wait" =>
           \/ /\ once_[cur[u]] = "not_run"
              /\ pc'[u] = "lookup"
              /\ once_'[cur[u]] = "running"
           \/ /\ once_[cur[u]] = "completed"
              /\ pc'[u] = "ret"
      /\ (\E t \in Threads \ {u} :
            cur[t] = cur[u] /\ pc[t] # "lookup" /\ pc'[t] = "lookup")
           => pc'[u] = "wait" /\ once_'[cur[u]] = "running"

\* A thread blocked on a handle whose lookup has failed does not wait for
\* ever.
WaiterReleased ==
  \A u \in Threads :
    (pc[u] = "wait" /\ failed[cur[u]] >= 1) ~> pc[u] \in {"done", "threw"}

\* C16 amended: when the executing thread's lookup fails while other threads
\* are blocked on the handle, the blocked threads are not left waiting for
\* ever and return no unresolved value: exactly one thread, one of the
\* blocked threads or a caller that arrives meanwhile, executes the lookup
\* next, and the other blocked threads keep waiting for that attempt.
C16_NextAttemptAfterFailure ==
  []AfterFailure /\ [][WaiterStep]_vars /\ WaiterReleased

\* One caller has ended with the failure of its lookup, a second is inside
\* the next lookup and a third is still blocked.
C16_Witness ==
  \E k \in Handles :
    \E t, u, w \in Threads :
      /\ cur[t] = k /\ pc[t] = "threw" /\ raised[t] # {}
      /\ cur[u] = k /\ pc[u] = "lookup"
      /\ w \in Waiting(k)

\* op_kind_ of handle k holds the result of a successful lookup.
Cached(k) == writes[k] >= 1 /\ op_kind_[k] = Resolved(k)

\* C17 as stated (its last part): in every reachable state once_ is
\* completed if and only if op_kind_ holds the result of a successful
\* lookup.
C17_CompletedIffCached ==
  \A k \in Handles : once_[k] = "completed" <=> Cached(k)

\* The moves of once_: not-yet-run to running when a call becomes the
\* active execution, running to completed when it returns, running to
\* not-yet-run when its lookup failed; nothing leaves completed.
OnceMoves ==
  \A k \in Handles :
    once_'[k] # once_[k] =>
      \/ /\ once_[k] = "not_run"
         /\ once_'[k] = "running"
         /\ lookups'[k] = lookups[k] + 1
      \/ /\ once_[k] = "running"
         /\ once_'[k] = "completed"
         /\ \E t \in Threads : cur[t] = k /\ pc[t] = "finish"
      \/ /\ once_[k] = "running"
         /\ once_'[k] = "not_run"
         /\ \E t \in Threads : cur[t] = k /\ pc[t] = "unwind" /\ raised[t] # {}

\* completed means cached; cached means completed, or running with the
\* active execution between its assignment and the end of call_once.
CompletedMeansCached ==
  \A k \in Handles :
    /\ once_[k] = "completed" => Cached(k)
    /\ Cached(k) =>
         \/ once_[k] = "completed"
         \/ /\ once_[k] = "running"
            /\ \E t \in Threads : cur[t] = k /\ pc[t] = "finish"

\* C17 amended: once_ moves only along not-yet-run -> running -> completed
\* (plus running -> not-yet-run on a failed lookup) and completed is
\* absorbing; in every reachable state completed implies that op_kind_
\* holds the result of a successful lookup, and op_kind_ holds such a
\* result only when once_ is completed or the executing thread has finished
\* the assignment and call_once is about to set the flag.
C17_OnceStateMachine == []CompletedMeansCached /\ [][OnceMoves]_vars

\* One handle went not-yet-run, running, not-yet-run (a failed lookup),
\* running, completed; its op_kind_ holds the result.
C17_Witness ==
  \E k \in Handles :
    /\ failed[k] = 1
    /\ lookups[k] = 2
    /\ once_[k] = "completed"
    /\ Cached(k)

====
